---- MODULE Spec2Model ----
(***************************************************************************)
(* The PCRE benchmark driver bench/pcre.c: argument parsing, loading of    *)
(* the input file, compilation of the pattern and one timed run per        *)
(* selected engine (default, JIT, DFA).  The PCRE library and the C        *)
(* library are the environment: each of their calls returns a value drawn  *)
(* from a small set.                                                       *)
(***************************************************************************)
EXTENDS Integers, Sequences, FiniteSets, TLC

\* ------------------------------------------------------------------------
\* Bounds of the model.
MaxOpts == 2    \* tokens starting with '-' at the head of the command line
MaxRest == 2    \* tokens after the first word of the command line
MaxCaps == 1    \* capture count reported by pcre_fullinfo
MaxLen  == 1    \* size of the input file in bytes
MaxRc   == 2    \* largest value returned by a match routine

\* ------------------------------------------------------------------------
\* Program constants.
ENGINE_DEFAULT == 1
ENGINE_JIT == 2
ENGINE_DFA == 4
PCRE_ERROR_NOMATCH == -1
PCRE_CASELESS == 1
DFA_OVECSIZE == 2

\* Exit statuses; Running is the status of a process that has not exited.
\* A process killed by a signal ends with status 128 + the signal's number.
Running == 0 - 1
Aborted == 128 + 6
Segfault == 128 + 11

\* ------------------------------------------------------------------------
\* C strings are sequences of characters; NUL is the terminator, which a
\* read past the last character yields.
NUL == "\\0"

CharAt(s, k) == IF k < Len(s) THEN s[k + 1] ELSE NUL

\* The first n characters strncmp looks at: it stops at the terminator.
FirstChars(s, n) == IF Len(s) >= n THEN SubSeq(s, 1, n) ELSE Append(s, NUL)

\* strncmp(s, lit, n) == 0
StrncmpEq(s, lit, n) == FirstChars(s, n) = FirstChars(lit, n)

\* sizeof of a string literal counts the terminator.
Sizeof(lit) == Len(lit) + 1

OptDefault == <<"-", "-", "d", "e", "f", "a", "u", "l", "t">>
OptJit     == <<"-", "-", "j", "i", "t">>
OptDfa     == <<"-", "-", "d", "f", "a">>
OptI       == <<"-", "i">>

Word == <<"p">>

\* The tokens starting with '-' the command line is drawn from: the four
\* options, one that only begins with an option's name and an unknown one.
DashTokens ==
  { OptDefault, OptJit, OptDfa, OptI,
    <<"-", "-", "j", "i", "t", "x">>, <<"-", "x">> }

\* The tokens that follow the first word.
RestTokens == { Word, OptJit }

RECURSIVE SeqsUpTo(_, _)
SeqsUpTo(S, n) ==
  IF n = 0 THEN { <<>> }
  ELSE LET shorter == SeqsUpTo(S, n - 1)
       IN  shorter \cup { Append(s, t) : s \in shorter, t \in S }

\* Every command line is a run of tokens starting with '-', then nothing or
\* a word and further tokens.
CommandLines ==
  { <<<<"s", "r", "e", "g", "e", "x">>>> \o o \o r :
      o \in SeqsUpTo(DashTokens, MaxOpts),
      r \in { <<>> } \cup { <<Word>> \o t : t \in SeqsUpTo(RestTokens, MaxRest) } }

\* ------------------------------------------------------------------------
\* Bit operations on the engine mask.
HasBit(x, b) == (x \div b) % 2 = 1
BitOr(x, b) == IF HasBit(x, b) THEN x ELSE x + b

VARIABLES
  argv,          \* argv[1] is the program name, argv[k + 1] is C's argv[k]
  pc,            \* position in main / run_engines
  i,             \* main's index into argv
  flags,         \* compile options
  engine_types,  \* mask of the selected engines
  ncaps,         \* capture count of the compiled pattern
  len,           \* file size found by ftell
  nread,         \* bytes of the file fread put into the input buffer
  eng,           \* the block of run_engines in execution (0 outside)
  ovecsize,      \* size of the output vector of the current block
  begin,         \* clock() before the match
  rc,            \* return value of the match routine
  elapsed,       \* clock() - begin
  k,             \* index of the print loop
  out,           \* standard output, one entry per printed piece
  err,           \* standard error, one entry per message
  calls,         \* library calls made so far, with their results
  status         \* exit status, Running until the process ends

vars == << argv, pc, i, flags, engine_types, ncaps, len, nread, eng, ovecsize,
           begin, rc, elapsed, k, out, err, calls, status >>

argc == Len(argv)
Arg(j) == argv[j + 1]

Init ==
  /\ argv \in CommandLines
  /\ pc = "argc_check"
  /\ i = 0
  /\ flags = 0
  /\ engine_types = 0
  /\ ncaps = 0
  /\ len = 0
  /\ nread = 0
  /\ eng = 0
  /\ ovecsize = 0
  /\ begin = 0
  /\ rc = 0
  /\ elapsed = 0
  /\ k = 0
  /\ out = <<>>
  /\ err = <<>>
  /\ calls = <<>>
  /\ status = Running

\* exit(code) or a return from main, after writing msg to standard error.
Die(code, msg) ==
  /\ status' = code
  /\ pc' = "exit"
  /\ err' = Append(err, msg)

\* usage(rc)
Usage(code) == Die(code, "usage")

\* ------------------------------------------------------------------------
\* main: argument parsing.

CheckArgc ==
  /\ pc = "argc_check"
  /\ IF argc < 3
       THEN /\ Usage(1)
            /\ UNCHANGED i
       ELSE /\ pc' = "opt_loop"
            /\ i' = 1
            /\ UNCHANGED << err, status >>
  /\ UNCHANGED << argv, flags, engine_types, ncaps, len, nread, eng, ovecsize,
                  begin, rc, elapsed, k, out, calls >>

\* The loop ends at the end of argv or at the first token not starting
\* with '-'.
OptionsEnd ==
  /\ pc = "opt_loop"
  /\ (i < argc) => (CharAt(Arg(i), 0) # "-")
  /\ pc' = "engine_check"
  /\ UNCHANGED << argv, i, flags, engine_types, ncaps, len, nread, eng,
                  ovecsize, begin, rc, elapsed, k, out, err, calls, status >>

AtOption == pc = "opt_loop" /\ i < argc /\ CharAt(Arg(i), 0) = "-"

IsDefault(s) == StrncmpEq(s, OptDefault, Sizeof(OptDefault) - 1)
IsJit(s) == StrncmpEq(s, OptJit, Sizeof(OptJit) - 1)
IsDfa(s) == StrncmpEq(s, OptDfa, Sizeof(OptDfa) - 1)
IsCaseless(s) == StrncmpEq(s, OptI, 2)

SetEngine(bit) ==
  /\ engine_types' = BitOr(engine_types, bit)
  /\ i' = i + 1
  /\ UNCHANGED << argv, pc, flags, ncaps, len, nread, eng, ovecsize, begin, rc,
                  elapsed, k, out, err, calls, status >>

OptionDefault ==
  /\ AtOption
  /\ IsDefault(Arg(i))
  /\ SetEngine(ENGINE_DEFAULT)

OptionJit ==
  /\ AtOption
  /\ ~IsDefault(Arg(i))
  /\ IsJit(Arg(i))
  /\ SetEngine(ENGINE_JIT)

OptionDfa ==
  /\ AtOption
  /\ ~IsDefault(Arg(i))
  /\ ~IsJit(Arg(i))
  /\ IsDfa(Arg(i))
  /\ SetEngine(ENGINE_DFA)

OptionCaseless ==
  /\ AtOption
  /\ ~IsDefault(Arg(i))
  /\ ~IsJit(Arg(i))
  /\ ~IsDfa(Arg(i))
  /\ IsCaseless(Arg(i))
  /\ flags' = BitOr(flags, PCRE_CASELESS)
  /\ i' = i + 1
  /\ UNCHANGED << argv, pc, engine_types, ncaps, len, nread, eng, ovecsize,
                  begin, rc, elapsed, k, out, err, calls, status >>

OptionUnknown ==
  /\ AtOption
  /\ ~IsDefault(Arg(i))
  /\ ~IsJit(Arg(i))
  /\ ~IsDfa(Arg(i))
  /\ ~IsCaseless(Arg(i))
  /\ Die(1, "unknown option")
  /\ UNCHANGED << argv, i, flags, engine_types, ncaps, len, nread, eng,
                  ovecsize, begin, rc, elapsed, k, out, calls >>

\* CheckEngine without its test: the engine mask is never looked at.
CheckEngineOmitted ==
  /\ pc = "engine_check"
  /\ pc' = "pos_check"
  /\ UNCHANGED << argv, i, flags, engine_types, ncaps, len, nread, eng,
                  ovecsize, begin, rc, elapsed, k, out, err, calls, status >>

CheckEngine ==
  /\ pc = "engine_check"
  /\ IF engine_types = 0
       THEN Die(1, "No engine specified.")
       ELSE /\ pc' = "pos_check"
            /\ UNCHANGED << err, status >>
  /\ UNCHANGED << argv, i, flags, engine_types, ncaps, len, nread, eng,
                  ovecsize, begin, rc, elapsed, k, out, calls >>

\* CheckPositional with argc - i < 2 for argc - i != 2.
CheckPositionalAtLeast ==
  /\ pc = "pos_check"
  /\ IF argc - i < 2
       THEN Usage(1)
       ELSE /\ pc' = "compile"
            /\ UNCHANGED << err, status >>
  /\ UNCHANGED << argv, i, flags, engine_types, ncaps, len, nread, eng,
                  ovecsize, begin, rc, elapsed, k, out, calls >>

CheckPositional ==
  /\ pc = "pos_check"
  /\ IF argc - i # 2
       THEN Usage(1)
       ELSE /\ pc' = "compile"
            /\ UNCHANGED << err, status >>
  /\ UNCHANGED << argv, i, flags, engine_types, ncaps, len, nread, eng,
                  ovecsize, begin, rc, elapsed, k, out, calls >>

\* ------------------------------------------------------------------------
\* main: compilation of the pattern.

\* A library call and its result, as recorded in calls.
Call(e, name, result) == << e, name, result >>

\* Compile without the return after a failed compilation.
CompileUnchecked ==
  /\ pc = "compile"
  /\ \E ok \in BOOLEAN :
       /\ calls' = Append(calls, Call(0, "pcre_compile", IF ok THEN 1 ELSE 0))
       /\ err' = IF ok THEN err ELSE Append(err, "[error] pos")
  /\ pc' = "fullinfo"
  /\ i' = i + 1
  /\ UNCHANGED << argv, flags, engine_types, ncaps, len, nread, eng, ovecsize,
                  begin, rc, elapsed, k, out, status >>

Compile ==
  /\ pc = "compile"
  /\ \E ok \in BOOLEAN :
       /\ calls' = Append(calls, Call(0, "pcre_compile", IF ok THEN 1 ELSE 0))
       /\ IF ok
            THEN /\ pc' = "fullinfo"
                 /\ UNCHANGED << err, status >>
            ELSE Die(2, "[error] pos")
  /\ i' = i + 1
  /\ UNCHANGED << argv, flags, engine_types, ncaps, len, nread, eng, ovecsize,
                  begin, rc, elapsed, k, out >>

FullInfo ==
  /\ pc = "fullinfo"
  /\ \E r \in { -1 } \cup (0 .. MaxCaps) :
       IF r < 0
         THEN /\ Die(2, "failed to get capture count.")
              /\ UNCHANGED ncaps
         ELSE /\ ncaps' = r
              /\ pc' = "fopen"
              /\ UNCHANGED << err, status >>
  /\ UNCHANGED << argv, i, flags, engine_types, len, nread, eng, ovecsize,
                  begin, rc, elapsed, k, out, calls >>

\* ------------------------------------------------------------------------
\* main: loading of the input file.

\* A C library call that either fails, which ends the process with status 1
\* after msg, or succeeds, which leads to the step at.
FileStep(here, name, msg, at) ==
  /\ pc = here
  /\ \E ok \in BOOLEAN :
       /\ calls' = Append(calls, Call(0, name, IF ok THEN 1 ELSE 0))
       /\ IF ok
            THEN /\ pc' = at
                 /\ UNCHANGED << err, status >>
            ELSE Die(1, msg)
  /\ UNCHANGED << argv, i, flags, engine_types, ncaps, len, nread, eng,
                  ovecsize, begin, rc, elapsed, k, out >>

Fopen == FileStep("fopen", "fopen", "open file", "fseek_end")

FseekEnd == FileStep("fseek_end", "fseek", "seek to file end", "ftell")

Ftell ==
  /\ pc = "ftell"
  /\ \E r \in { -1 } \cup (0 .. MaxLen) :
       IF r = -1
         THEN /\ Die(1, "get file offset by ftell")
              /\ UNCHANGED len
         ELSE /\ len' = r
              /\ pc' = "fseek_set"
              /\ UNCHANGED << err, status >>
  /\ UNCHANGED << argv, i, flags, engine_types, ncaps, nread, eng, ovecsize,
                  begin, rc, elapsed, k, out, calls >>

FseekSet == FileStep("fseek_set", "fseek", "seek to file beginning", "malloc")

MallocInput == FileStep("malloc", "malloc", "failed to allocate", "fread")

\* fread puts n <= len bytes into the buffer; feof tells an end of file from
\* another failure when n < len.
Fread ==
  /\ pc = "fread"
  /\ \E n \in 0 .. len, eof \in BOOLEAN :
       /\ nread' = n
       /\ calls' = Append(calls, Call(0, "fread", n))
       /\ IF n < len
            THEN IF eof
                   THEN Die(1, "file truncated.")
                   ELSE /\ err' = Append(err, "read file")
                        /\ pc' = "fclose"
                        /\ UNCHANGED status
            ELSE /\ pc' = "fclose"
                 /\ UNCHANGED << err, status >>
  /\ UNCHANGED << argv, i, flags, engine_types, ncaps, len, eng, ovecsize,
                  begin, rc, elapsed, k, out >>

Fclose ==
  /\ pc = "fclose"
  /\ \E ok \in BOOLEAN :
       IF ok
         THEN /\ pc' = "block"
              /\ eng' = ENGINE_DEFAULT
              /\ UNCHANGED << err, status >>
         ELSE /\ Die(1, "close file")
              /\ UNCHANGED eng
  /\ UNCHANGED << argv, i, flags, engine_types, ncaps, len, nread, ovecsize,
                  begin, rc, elapsed, k, out, calls >>

\* ------------------------------------------------------------------------
\* run_engines: one block per engine, in the order of the source text.

\* NextEngine with the JIT block left out.
NextEngineSkipsJit(e) == ENGINE_DFA

\* The block that follows block e in run_engines.
NextEngine(e) == IF e = ENGINE_DEFAULT THEN ENGINE_JIT ELSE ENGINE_DFA

\* Size of the output vector the block allocates.
OvecSize(e) == IF e = ENGINE_DFA THEN DFA_OVECSIZE ELSE (ncaps + 1) * 3

\* Options given to pcre_study: PCRE_STUDY_JIT_COMPILE (1) for the JIT block.
StudyOptions(e) == IF e = ENGINE_JIT THEN 1 ELSE 0

\* Values a match routine returns: an engine error, PCRE_ERROR_NOMATCH, 0
\* and the positive counts.
RcVals == (PCRE_ERROR_NOMATCH - 1) .. MaxRc

\* clock() returns -1 on failure; 0 stands for every processor time.
ClockVals == { -1, 0 }

\* The end of a block: on to the next one, or to the last printf.
LeaveBlock ==
  IF eng = ENGINE_DFA
    THEN /\ pc' = "footer"
         /\ eng' = 0
    ELSE /\ pc' = "block"
         /\ eng' = NextEngine(eng)

\* if (engine_types & ENGINE_x), not taken
SkipBlock ==
  /\ pc = "block"
  /\ ~HasBit(engine_types, eng)
  /\ LeaveBlock
  /\ UNCHANGED << argv, i, flags, engine_types, ncaps, len, nread, ovecsize,
                  begin, rc, elapsed, k, out, err, calls, status >>

\* if (engine_types & ENGINE_x), taken: malloc, assert and the first printf.
EnterBlock ==
  /\ pc = "block"
  /\ HasBit(engine_types, eng)
  /\ ovecsize' = OvecSize(eng)
  /\ \E ok \in BOOLEAN :
       IF ok
         THEN /\ out' = Append(out, << eng, "pcre" >>)
              /\ pc' = "study"
              /\ UNCHANGED << err, status >>
         ELSE /\ err' = Append(err, "assertion failed")
              /\ status' = Aborted
              /\ pc' = "exit"
              /\ UNCHANGED out
  /\ UNCHANGED << argv, i, flags, engine_types, ncaps, len, nread, eng, begin,
                  rc, elapsed, k, calls >>

Study ==
  /\ pc = "study"
  /\ calls' = Append(calls, Call(eng, "pcre_study", StudyOptions(eng)))
  /\ \E ok \in BOOLEAN :
       IF ok
         THEN /\ pc' = "clock_begin"
              /\ UNCHANGED << err, status >>
         ELSE Die(2, "failed to study the regex")
  /\ UNCHANGED << argv, i, flags, engine_types, ncaps, len, nread, eng,
                  ovecsize, begin, rc, elapsed, k, out >>

ClockBegin ==
  /\ pc = "clock_begin"
  /\ \E c \in ClockVals :
       /\ begin' = c
       /\ IF c = -1
            THEN Die(2, "clock")
            ELSE /\ pc' = "exec"
                 /\ UNCHANGED << err, status >>
  /\ UNCHANGED << argv, i, flags, engine_types, ncaps, len, nread, eng,
                  ovecsize, rc, elapsed, k, out, calls >>

\* pcre_exec in the default and JIT blocks, pcre_dfa_exec in the DFA block.
Exec ==
  /\ pc = "exec"
  /\ \E r \in RcVals :
       /\ rc' = r
       /\ calls' = Append(calls, Call(eng, "exec", r))
  /\ pc' = "clock_end"
  /\ UNCHANGED << argv, i, flags, engine_types, ncaps, len, nread, eng,
                  ovecsize, begin, elapsed, k, out, err, status >>

ClockEnd ==
  /\ pc = "clock_end"
  /\ \E c \in ClockVals :
       /\ elapsed' = c - begin
       /\ IF c - begin < 0
            THEN Die(2, "clock")
            ELSE /\ pc' = "rc_zero"
                 /\ UNCHANGED << err, status >>
  /\ UNCHANGED << argv, i, flags, engine_types, ncaps, len, nread, eng,
                  ovecsize, begin, rc, k, out, calls >>

\* ZeroIsFatal with the DFA block treated like the other two.
ZeroIsFatalEverywhere(e) == TRUE

\* if (rc == 0): fatal in the default and JIT blocks, rc = 1 in the DFA block.
ZeroIsFatal(e) == e # ENGINE_DFA

CheckZero ==
  /\ pc = "rc_zero"
  /\ IF rc = 0
       THEN IF ZeroIsFatal(eng)
              THEN /\ Die(2, "capture size too small")
                   /\ UNCHANGED rc
              ELSE /\ rc' = 1
                   /\ pc' = "rc_nomatch"
                   /\ UNCHANGED << err, status >>
       ELSE /\ pc' = "rc_nomatch"
            /\ UNCHANGED << rc, err, status >>
  /\ UNCHANGED << argv, i, flags, engine_types, ncaps, len, nread, eng,
                  ovecsize, begin, elapsed, k, out, calls >>

\* if (rc == PCRE_ERROR_NOMATCH) printf("no match");
CheckNoMatch ==
  /\ pc = "rc_nomatch"
  /\ out' = IF rc = PCRE_ERROR_NOMATCH
              THEN Append(out, << eng, "no match" >>)
              ELSE out
  /\ pc' = "rc_negative"
  /\ UNCHANGED << argv, i, flags, engine_types, ncaps, len, nread, eng,
                  ovecsize, begin, rc, elapsed, k, err, calls, status >>

\* CheckNegative without the exit(2).
CheckNegativeNoExit ==
  /\ pc = "rc_negative"
  /\ out' = IF rc < 0 THEN Append(out, << eng, "error" >>) ELSE out
  /\ pc' = "rc_positive"
  /\ UNCHANGED << argv, i, flags, engine_types, ncaps, len, nread, eng,
                  ovecsize, begin, rc, elapsed, k, err, calls, status >>

\* if (rc < 0) { printf("error: %d\n", rc); exit(2); }
CheckNegative ==
  /\ pc = "rc_negative"
  /\ IF rc < 0
       THEN /\ out' = Append(out, << eng, "error" >>)
            /\ status' = 2
            /\ pc' = "exit"
       ELSE /\ pc' = "rc_positive"
            /\ UNCHANGED << out, status >>
  /\ UNCHANGED << argv, i, flags, engine_types, ncaps, len, nread, eng,
                  ovecsize, begin, rc, elapsed, k, err, calls >>

\* if (rc > 0) { printf("match"); for (i = 0, n = 0; ...
CheckPositive ==
  /\ pc = "rc_positive"
  /\ IF rc > 0
       THEN /\ out' = Append(out, << eng, "match" >>)
            /\ k' = 0
            /\ pc' = "pairs"
       ELSE /\ pc' = "elapsed"
            /\ UNCHANGED << out, k >>
  /\ UNCHANGED << argv, i, flags, engine_types, ncaps, len, nread, eng,
                  ovecsize, begin, rc, elapsed, err, calls, status >>

\* ovector[n] and ovector[n + 1], n = 2 * k, are inside the vector.
InVector(j) == 2 * j + 1 < ovecsize

\* PrintPair with i <= rc for i < rc.
PrintPairOffByOne ==
  /\ pc = "pairs"
  /\ k <= rc
  /\ IF InVector(k)
       THEN /\ out' = Append(out, << eng, "pair" >>)
            /\ k' = k + 1
            /\ UNCHANGED << pc, status >>
       ELSE \E killed \in BOOLEAN :
              IF killed
                THEN /\ status' = Segfault
                     /\ pc' = "exit"
                     /\ UNCHANGED << out, k >>
                ELSE /\ out' = Append(out, << eng, "pair outside" >>)
                     /\ k' = k + 1
                     /\ UNCHANGED << pc, status >>
  /\ UNCHANGED << argv, i, flags, engine_types, ncaps, len, nread, eng,
                  ovecsize, begin, rc, elapsed, err, calls >>

\* One turn of the print loop.  A read outside the vector is undefined: it
\* yields some integers, or the process is killed.
PrintPair ==
  /\ pc = "pairs"
  /\ k < rc
  /\ IF InVector(k)
       THEN /\ out' = Append(out, << eng, "pair" >>)
            /\ k' = k + 1
            /\ UNCHANGED << pc, status >>
       ELSE \E killed \in BOOLEAN :
              IF killed
                THEN /\ status' = Segfault
                     /\ pc' = "exit"
                     /\ UNCHANGED << out, k >>
                ELSE /\ out' = Append(out, << eng, "pair outside" >>)
                     /\ k' = k + 1
                     /\ UNCHANGED << pc, status >>
  /\ UNCHANGED << argv, i, flags, engine_types, ncaps, len, nread, eng,
                  ovecsize, begin, rc, elapsed, err, calls >>

PairsDone ==
  /\ pc = "pairs"
  /\ ~(k < rc)
  /\ pc' = "elapsed"
  /\ UNCHANGED << argv, i, flags, engine_types, ncaps, len, nread, eng,
                  ovecsize, begin, rc, elapsed, k, out, err, calls, status >>

\* printf(": %ld clock units elapsed.\n", ...), the last statement of a block
PrintElapsed ==
  /\ pc = "elapsed"
  /\ out' = Append(out, << eng, "elapsed" >>)
  /\ LeaveBlock
  /\ UNCHANGED << argv, i, flags, engine_types, ncaps, len, nread, ovecsize,
                  begin, rc, elapsed, k, err, calls, status >>

\* printf("(1 clock unit is %lf sec)\n", ...), then main returns 0.
Footer ==
  /\ pc = "footer"
  /\ out' = Append(out, << 0, "clock unit" >>)
  /\ status' = 0
  /\ pc' = "exit"
  /\ UNCHANGED << argv, i, flags, engine_types, ncaps, len, nread, eng,
                  ovecsize, begin, rc, elapsed, k, err, calls >>

Next ==
  \/ CheckArgc
  \/ OptionsEnd
  \/ OptionDefault
  \/ OptionJit
  \/ OptionDfa
  \/ OptionCaseless
  \/ OptionUnknown
  \/ CheckEngine
  \/ CheckPositional
  \/ Compile
  \/ FullInfo
  \/ Fopen
  \/ FseekEnd
  \/ Ftell
  \/ FseekSet
  \/ MallocInput
  \/ Fread
  \/ Fclose
  \/ SkipBlock
  \/ EnterBlock
  \/ Study
  \/ ClockBegin
  \/ Exec
  \/ ClockEnd
  \/ CheckZero
  \/ CheckNoMatch
  \/ CheckNegative
  \/ CheckPositive
  \/ PrintPair
  \/ PairsDone
  \/ PrintElapsed
  \/ Footer

Spec == Init /\ [][Next]_vars

\* ------------------------------------------------------------------------
\* Vocabulary of the properties.

Engines == { ENGINE_DEFAULT, ENGINE_JIT, ENGINE_DFA }

InSeq(s, x) == \E j \in 1 .. Len(s) : s[j] = x

Printed(e, what) == InSeq(out, << e, what >>)

Exited == pc = "exit"

\* The engines of the entries of s whose name is what, in order.
EnginesOf(s, what) ==
  LET hits == SelectSeq(s, LAMBDA x : x[2] = what)
  IN  [ j \in 1 .. Len(hits) |-> hits[j][1] ]

\* The selected engines in the order default, JIT, DFA.
Selected ==
  SelectSeq(<< ENGINE_DEFAULT, ENGINE_JIT, ENGINE_DFA >>,
            LAMBDA e : HasBit(engine_types, e))

\* What standard output holds of engine e, in order.
LinesOf(e) ==
  LET hits == SelectSeq(out, LAMBDA x : x[1] = e)
  IN  [ j \in 1 .. Len(hits) |-> hits[j][2] ]

\* The command line as given: the option tokens are the tokens starting
\* with '-' before the first other token, the positional ones are the rest.
NumOpts ==
  CHOOSE n \in 0 .. (argc - 1) :
    /\ \A j \in 1 .. n : CharAt(Arg(j), 0) = "-"
    /\ (n < argc - 1) => (CharAt(Arg(n + 1), 0) # "-")

NumPositional == argc - 1 - NumOpts

EngineOptions == { OptDefault, OptJit, OptDfa }

ExactOptions == EngineOptions \cup { OptI }

AllRecognized == \A j \in 1 .. NumOpts : Arg(j) \in ExactOptions

EngineGiven == \E j \in 1 .. NumOpts : Arg(j) \in EngineOptions

ParsePcs == { "argc_check", "opt_loop", "engine_check", "pos_check" }

\* ------------------------------------------------------------------------
\* C1: a match routine returning PCRE_ERROR_NOMATCH is no error: the block
\* prints "no match", then its elapsed line, and the process does not end
\* in that block with "error" and status 2.
C1_NoMatchIsNoError ==
  \A e \in Engines :
    (Exited /\ Printed(e, "no match")) =>
      /\ Printed(e, "elapsed")
      /\ ~Printed(e, "error")

\* C2: a run ending with status 0 ran exactly the selected engines, once
\* each, in the order default, JIT, DFA; each printed one line, ended by its
\* elapsed part; the clock unit line is printed once, last.
C2_RunsInOrder ==
  (Exited /\ status = 0) =>
    /\ EnginesOf(out, "pcre") = Selected
    /\ EnginesOf(out, "elapsed") = Selected
    /\ EnginesOf(out, "error") = << >>
    /\ EnginesOf(calls, "exec") = Selected
    /\ EnginesOf(calls, "pcre_study") = Selected
    /\ EnginesOf(out, "clock unit") = << 0 >>
    /\ out[Len(out)] = << 0, "clock unit" >>

C2_Witness ==
  /\ Exited
  /\ status = 0
  /\ Len(Selected) >= 2

\* C3 as stated: with every option token recognised and a number of
\* positional arguments other than two, the process prints the usage text
\* and exits with status 1 without compiling the pattern or opening the file.
C3_Original ==
  (AllRecognized /\ NumPositional # 2) =>
    /\ pc \in ParsePcs \cup { "exit" }
    /\ calls = << >>
    /\ Exited => (status = 1 /\ InSeq(err, "usage"))

\* C3 amended: the same when, besides, an engine option is given.
C3_UsageOnBadCount ==
  (AllRecognized /\ EngineGiven /\ NumPositional # 2) =>
    /\ pc \in ParsePcs \cup { "exit" }
    /\ calls = << >>
    /\ Exited => (status = 1 /\ err = << "usage" >>)

C3_Witness ==
  /\ AllRecognized
  /\ EngineGiven
  /\ NumPositional > 2
  /\ Exited
  /\ status = 1

\* C4: with no engine option, only -i options and two positional arguments,
\* the process prints "No engine specified." and exits with status 1 before
\* any library call; and no block of run_engines is reached with an empty
\* engine mask.
C4_NoEngine ==
  /\ ((\A j \in 1 .. NumOpts : Arg(j) = OptI) /\ NumPositional = 2) =>
       /\ pc \in ParsePcs \cup { "exit" }
       /\ calls = << >>
       /\ out = << >>
       /\ Exited => (status = 1 /\ err = << "No engine specified." >>)
  /\ (eng # 0 \/ pc = "footer") => engine_types # 0

C4_Witness ==
  /\ NumOpts = 1
  /\ Arg(1) = OptI
  /\ NumPositional = 2
  /\ Exited
  /\ status = 1

\* C5: an option token that is not exactly -i, --default, --jit or --dfa
\* ends the process at once with a non-zero status and a message on
\* standard error, and sets neither an engine bit nor the caseless flag.
C5_InexactOptionRejected ==
  [][ (AtOption /\ Arg(i) \notin ExactOptions) =>
        /\ status' \notin { Running, 0 }
        /\ Len(err') > Len(err)
        /\ engine_types' = engine_types
        /\ flags' = flags ]_vars

\* C6: no match routine is called on a buffer that holds fewer bytes than
\* the size of the file.
C6_NoMatchOnShortRead ==
  (EnginesOf(calls, "exec") # << >>) => nread = len

\* The pairs the DFA block has printed are at most one, all read inside
\* the vector, and no read outside has killed the process.
DfaOnePair ==
  /\ Len(SelectSeq(LinesOf(ENGINE_DFA),
                   LAMBDA w : w \in { "pair", "pair outside" })) <= 1
  /\ ~Printed(ENGINE_DFA, "pair outside")
  /\ status # Segfault \/ eng # ENGINE_DFA

\* C7 as stated: the DFA block prints at most one pair, whatever
\* pcre_dfa_exec returns, and so never reads outside its 2-integer vector.
C7_Original == DfaOnePair

\* C7 amended: the same whenever pcre_dfa_exec returned at most 1, whatever
\* the capture count.
C7_DfaOnePairUpToOne ==
  (\A j \in 1 .. Len(calls) :
     (calls[j][1] = ENGINE_DFA /\ calls[j][2] = "exec") => calls[j][3] <= 1)
  => DfaOnePair

C7_Witness ==
  /\ Exited
  /\ ncaps > 0
  /\ InSeq(calls, Call(ENGINE_DFA, "exec", 1))
  /\ LinesOf(ENGINE_DFA) = << "pcre", "match", "pair", "elapsed" >>


\* C8: a failure in a block (study error, clock failure, negative elapsed
\* time, capture overflow, engine error) ends the process with status 2;
\* the block's elapsed line and the clock unit line are not printed and no
\* later block prints or calls the library.
EngineFailures ==
  { "failed to study the regex", "clock", "capture size too small" }

Failed ==
  \/ \E m \in EngineFailures : InSeq(err, m)
  \/ \E e \in Engines : Printed(e, "error")

C8_FailFast ==
  Failed =>
    /\ Exited
    /\ status = 2
    /\ eng \in Engines
    /\ ~Printed(eng, "elapsed")
    /\ ~Printed(0, "clock unit")
    /\ \A e \in Engines :
         e > eng => (LinesOf(e) = << >> /\ ~InSeq(EnginesOf(calls, "exec"), e)
                                        /\ ~InSeq(EnginesOf(calls, "pcre_study"), e))

C8_Witness ==
  /\ Exited
  /\ Printed(ENGINE_DEFAULT, "error")
  /\ EngineFailures \cap { err[j] : j \in 1 .. Len(err) } = { }
  /\ \E e \in Engines : e > ENGINE_DEFAULT /\ HasBit(engine_types, e)

\* C9: a return of 0 is fatal in the default and JIT blocks (status 2,
\* neither "match" nor "no match" nor the elapsed line); in the DFA block
\* it is no error: "match", one pair and the elapsed line are printed and
\* the process goes on.
C9_ZeroReturn ==
  /\ \A e \in { ENGINE_DEFAULT, ENGINE_JIT } :
       InSeq(calls, Call(e, "exec", 0)) =>
         /\ pc \in { "clock_end", "rc_zero", "exit" }
         /\ LinesOf(e) = << "pcre" >>
         /\ Exited =>
              /\ status = 2
              /\ err[Len(err)] \in { "capture size too small", "clock" }
  /\ (InSeq(calls, Call(ENGINE_DFA, "exec", 0)) /\ ~InSeq(err, "clock")) =>
       /\ ~Printed(ENGINE_DFA, "error")
       /\ pc # "exit" \/ status = 0
       /\ Exited =>
            LinesOf(ENGINE_DFA) = << "pcre", "match", "pair", "elapsed" >>

C9_Witness ==
  /\ Exited
  /\ status = 0
  /\ InSeq(calls, Call(ENGINE_DFA, "exec", 0))

\* C10: the pattern is compiled once, before every other library call and
\* so before any engine run; a failed compilation ends the process with
\* status 2 after the error message, with no further library call: no file
\* is opened and no engine runs.
C10_CompileOnce ==
  /\ Len(EnginesOf(calls, "pcre_compile")) <= 1
  /\ calls # << >> => calls[1][2] = "pcre_compile"
  /\ pc \notin ParsePcs \cup { "compile", "exit" } =>
       calls # << >> /\ calls[1] = Call(0, "pcre_compile", 1)
  /\ InSeq(calls, Call(0, "pcre_compile", 0)) =>
       /\ Exited
       /\ status = 2
       /\ calls = << Call(0, "pcre_compile", 0) >>
       /\ out = << >>
       /\ err = << "[error] pos" >>

C10_Witness ==
  /\ Exited
  /\ calls = << Call(0, "pcre_compile", 0) >>
  /\ Len(Selected) >= 2

====
